---- MODULE Spec2Model ----
(***************************************************************************)
(* ReconAI: the scan endpoints of app.py and app_v2.py (start_scan), the   *)
(* SQLite store of modules/database.py, the analyzer of                    *)
(* modules/llm_analyzer.py, the port scanner of modules/network_intel.py   *)
(* and the person module of modules/person_intel.py.                       *)
(*                                                                         *)
(* Spec          several start_scan requests interleaved at their awaits,  *)
(*               on the one shared Database connection.                    *)
(* SpecNet       one NetworkIntelligence.scan call with its concurrent     *)
(*               _scan_port tasks.                                         *)
(* SpecAnalysis  one start_scan request, its analysis under every          *)
(*               behaviour of the provider.                                *)
(* SpecStore     the store under any sequence of start_scan's writes and   *)
(*               the read endpoints.                                       *)
(* SpecPerson    one PersonIntelligence instance, scan after scan.         *)
(* SpecV2        the app_v2 process and one scan request to it.            *)
(***************************************************************************)
EXTENDS Integers, Sequences, FiniteSets, TLC

VARIABLES conn,     \* Database.conn: "none" until initialize(), then "open"
          clock,    \* datetime.utcnow(), as a counter
          scans,    \* rows of table scans, in insertion order
          req,      \* per request: position in start_scan and its locals
          net,      \* one NetworkIntelligence.scan call and its probe tasks
          findings, \* rows of table findings
          api,      \* the store's callers: what they were handed, and the
                    \* last answer of a read endpoint
          v2,       \* the app_v2 process and its scan request
          psn       \* one PersonIntelligence instance and its scan call

vars == <<conn, clock, scans, req, net, findings, api, v2, psn>>

-----------------------------------------------------------------------------
(* Bounds and input sets                                                   *)

NumPorts == 2          \* the probes run over the first NumPorts common_ports
MaxTime == 4           \* the clock stops advancing at MaxTime

Requests == {"r1", "r2"}
ScanIds == {"id1", "id2"}
Targets == {"example.com", "http://["}
ScanTypes == {"full"}

\* ReconRequest.modules is List[str]: any strings, in any order.
ModuleLists ==
    { <<>>,
      <<"network">>,
      <<"network", "web">>,
      <<"web", "person">>,
      <<"domain", "web", "network", "social", "threat">> }

-----------------------------------------------------------------------------
(* Python values                                                           *)

None == [py |-> "None"]
Str(s) == [py |-> "str", s |-> s]
\* bool(v) for v None or a str (a str holds a sequence of characters)
Truthy(v) == v.py = "str" /\ v.s # <<>>

\* A dict whose key order matters: a sequence of <<key, value>>.
DictKeys(d) == {d[i][1] : i \in 1..Len(d)}
DictHas(d, k) == k \in DictKeys(d)
DictGet(d, k) == d[CHOOSE i \in 1..Len(d) : d[i][1] = k][2]
DictSet(d, k, v) ==
    IF DictHas(d, k)
    THEN [i \in 1..Len(d) |-> IF d[i][1] = k THEN <<k, v>> ELSE d[i]]
    ELSE Append(d, <<k, v>>)
DictKeySeq(d) == [i \in 1..Len(d) |-> d[i][1]]

SeqToSet(s) == {s[i] : i \in 1..Len(s)}
Min(a, b) == IF a < b THEN a ELSE b

\* datetime.utcnow(): every reading is later than the one before
Now == Min(clock + 1, MaxTime)

-----------------------------------------------------------------------------
(* modules/network_intel.py: NetworkIntelligence                           *)

common_ports ==
    << 21, 22, 23, 25, 53, 80, 110, 143, 443, 465, 587, 993, 995,
       3306, 3389, 5432, 5900, 8080, 8443, 27017 >>

\* The ports the model launches probes for.
Ports == SubSeq(common_ports, 1, NumPorts)
PortIdx == 1..Len(Ports)

_identify_service(port) ==
    CASE port = 21 -> "FTP"
      [] port = 22 -> "SSH"
      [] port = 23 -> "Telnet"
      [] port = 25 -> "SMTP"
      [] port = 53 -> "DNS"
      [] port = 80 -> "HTTP"
      [] port = 110 -> "POP3"
      [] port = 143 -> "IMAP"
      [] port = 443 -> "HTTPS"
      [] port = 465 -> "SMTPS"
      [] port = 587 -> "SMTP (Submission)"
      [] port = 993 -> "IMAPS"
      [] port = 995 -> "POP3S"
      [] port = 3306 -> "MySQL"
      [] port = 3389 -> "RDP"
      [] port = 5432 -> "PostgreSQL"
      [] port = 5900 -> "VNC"
      [] port = 8080 -> "HTTP-Proxy"
      [] port = 8443 -> "HTTPS-Alt"
      [] port = 27017 -> "MongoDB"
      [] OTHER -> "Unknown"

\* What the network does to one probe: the outcome of each of its awaits.
ConnectOutcomes == {"established", "refused", "timeout", "unreachable", "error"}
\* Bytes are one-character tokens; "xFF" is a byte that is not valid UTF-8.
ReadData == { <<>>, <<" ", "xFF">>, <<"S", " ">> }
ReadOutcomes ==
    {[kind |-> "data", bytes |-> b] : b \in ReadData}
    \cup {[kind |-> "timeout", bytes |-> <<>>], [kind |-> "reset", bytes |-> <<>>]}
CloseOutcomes == {"closed", "raises"}

\* bytes.decode('utf-8', errors='ignore')
Decode(b) == SelectSeq(b, LAMBDA c : c # "xFF")
IsSpace(c) == c = " "
RECURSIVE LStrip(_)
LStrip(s) == IF s # <<>> /\ IsSpace(Head(s)) THEN LStrip(Tail(s)) ELSE s
RECURSIVE RStrip(_)
RStrip(s) ==
    IF s # <<>> /\ IsSpace(s[Len(s)]) THEN RStrip(SubSeq(s, 1, Len(s) - 1)) ELSE s
\* str.strip()
Strip(s) == RStrip(LStrip(s))

\* A bytes object
Bytes(b) == [py |-> "bytes", b |-> b]

\* One _scan_port coroutine: where it is, and its locals (banner_data stays
\* None when the read raised).
NewProbe(port) ==
    [pc |-> "unstarted", port |-> port, established |-> FALSE, lost |-> FALSE,
     banner_data |-> None, banner |-> None, ret |-> <<>>]

\* the outer bare except of _scan_port: return (port, False, None)
ScanPortExcept(p) ==
    [p EXCEPT !.pc = "returned", !.ret = <<p.port, FALSE, None>>]

\* ScanPortConnect whose except lets the deadline's TimeoutError escape
ScanPortConnect_TimeoutEscapes(p, out) ==
    IF out = "established"
    THEN [p EXCEPT !.pc = "reading", !.established = TRUE, !.banner = None]
    ELSE IF out = "timeout" THEN [p EXCEPT !.pc = "raised"]
    ELSE ScanPortExcept(p)

\* await wait_for(open_connection(host, port), timeout), then banner = None
ScanPortConnect(p, out) ==
    IF out = "established"
    THEN [p EXCEPT !.pc = "reading", !.established = TRUE, !.banner = None]
    ELSE ScanPortExcept(p)

\* ScanPortRead without the wait_for: a peer that sends nothing keeps the
\* read waiting for ever
ScanPortRead_NoDeadline(p, out) ==
    IF out.kind = "timeout"
    THEN [p EXCEPT !.pc = "hung"]
    ELSE [p EXCEPT !.pc = "closing",
                   !.lost = (out.kind = "reset"),
                   !.banner_data = IF out.kind = "data" THEN Bytes(out.bytes) ELSE None,
                   !.banner = IF out.kind = "data"
                              THEN Str(Strip(Decode(out.bytes)))
                              ELSE None]

\* await wait_for(reader.read(1024), 1) under the inner bare except, then
\* writer.close() and the call of wait_closed()
ScanPortRead(p, out) ==
    [p EXCEPT !.pc = "closing",
              !.lost = (out.kind = "reset"),
              !.banner_data = IF out.kind = "data" THEN Bytes(out.bytes) ELSE None,
              !.banner = IF out.kind = "data"
                         THEN Str(Strip(Decode(out.bytes)))
                         ELSE None]

\* A connection lost with an exception makes wait_closed() raise it.
CloseOutcomesOf(p) == IF p.lost THEN {"raises"} ELSE CloseOutcomes

\* await writer.wait_closed(), then return (port, True, banner)
ScanPortClose(p, out) ==
    IF out = "closed"
    THEN [p EXCEPT !.pc = "returned", !.ret = <<p.port, TRUE, p.banner>>]
    ELSE ScanPortExcept(p)

\* A whole _scan_port call under the environment env = [connect, read, close].
ProbeEnvs ==
    {e \in [connect : ConnectOutcomes, read : ReadOutcomes, close : CloseOutcomes] :
        e.read.kind = "reset" => e.close = "raises"}
_scan_port(port, env) ==
    LET c == ScanPortConnect(NewProbe(port), env.connect)
    IN  IF c.pc = "returned" THEN c
        ELSE ScanPortClose(ScanPortRead(c, env.read), env.close)

\* socket.gethostbyname(target)
UrlParseRaises(t) == t = "http://["
Resolutions(t) ==
    IF UrlParseRaises(t)
    THEN {[ok |-> FALSE, value |-> "Name or service not known"]}
    ELSE {[ok |-> TRUE, value |-> "93.184.216.34"],
          [ok |-> FALSE, value |-> "Temporary failure in name resolution"]}

\* The dict scan() starts from.
NetResults(t) ==
    [target |-> t, open_ports |-> <<>>, closed_ports |-> <<>>,
     services |-> <<>>, banners |-> <<>>]

\* d[k] = v on a dict held as a function
Put(d, k, v) == [x \in DOMAIN d \cup {k} |-> IF x = k THEN v ELSE d[x]]

\* NetResolveFailed that swallows the exception without recording it
NetResolveFailed_Silent(results, e) == results

\* except Exception as e: results["error"] = ...; return results
NetResolveFailed(results, e) ==
    Put(results, "error", <<"Could not resolve hostname: ", e>>)

\* Gather that yields the results as the tasks finish (as_completed)
Gather_AsCompleted(probes, order) == [i \in 1..Len(probes) |-> probes[order[i]].ret]

\* asyncio.gather(*tasks): the results in the order of the tasks, whatever
\* order they finished in (order lists the task indexes as they finished).
Gather(probes, order) == [i \in 1..Len(probes) |-> probes[i].ret]

\* ClassifyOne that keeps every banner that is not None
ClassifyOne_AnyBanner(results, pr) ==
    LET port == pr[1]
        is_open == pr[2]
        banner == pr[3]
    IN  IF is_open
        THEN [results EXCEPT
                !.open_ports = Append(@, port),
                !.services = Put(@, port, _identify_service(port)),
                !.banners = IF banner # None THEN Put(@, port, banner) ELSE @]
        ELSE [results EXCEPT !.closed_ports = Append(@, port)]

\* One round of the loop over port_results.
ClassifyOne(results, pr) ==
    LET port == pr[1]
        is_open == pr[2]
        banner == pr[3]
    IN  IF is_open
        THEN [results EXCEPT
                !.open_ports = Append(@, port),
                !.services = Put(@, port, _identify_service(port)),
                !.banners = IF Truthy(banner) THEN Put(@, port, banner) ELSE @]
        ELSE [results EXCEPT !.closed_ports = Append(@, port)]

RECURSIVE Classify(_, _)
Classify(results, port_results) ==
    IF port_results = <<>> THEN results
    ELSE Classify(ClassifyOne(results, Head(port_results)), Tail(port_results))

\* ScanResolve without the `return results` of the except branch
ScanResolve_NoReturn(t, res) ==
    IF res.ok
    THEN [results |-> Put(NetResults(t), "ip_address", res.value), returned |-> FALSE]
    ELSE [results |-> NetResolveFailed(NetResults(t), res.value), returned |-> FALSE]

\* scan() up to the resolution: the dict so far, and whether scan returned it
ScanResolve(t, res) ==
    IF res.ok
    THEN [results |-> Put(NetResults(t), "ip_address", res.value), returned |-> FALSE]
    ELSE [results |-> NetResolveFailed(NetResults(t), res.value), returned |-> TRUE]

\* NetworkScan on an instance that keeps its results dict as an attribute:
\* once a scan has filled it, every later caller is handed that same dict
NetworkScan_SharedResults(t, res, envs) ==
    IF \E r \in Requests : DictHas(req[r].results, "network")
    THEN DictGet(req[CHOOSE r \in Requests : DictHas(req[r].results, "network")].results,
                 "network")
    ELSE LET s == ScanResolve(t, res)
         IN  IF s.returned THEN s.results
             ELSE Classify(s.results,
                           Gather([i \in PortIdx |-> _scan_port(Ports[i], envs[i])],
                                  [i \in PortIdx |-> i]))

\* NetworkIntelligence.scan as a function of what the network answers.
NetworkScan(t, res, envs) ==
    LET s == ScanResolve(t, res)
    IN  IF s.returned THEN s.results
        ELSE Classify(s.results,
                      Gather([i \in PortIdx |-> _scan_port(Ports[i], envs[i])],
                             [i \in PortIdx |-> i]))

-----------------------------------------------------------------------------
(* modules/database.py: Database                                           *)

\* What SQLite does to one write: "execute" fails the statement, "commit"
\* fails the commit after the statement has run on the connection.
DbFaults == {"none", "execute", "commit"}

\* A str holding JSON text, as the value it denotes; it is never the empty str.
JsonText(v) == [py |-> "str", json |-> v]
\* datetime.isoformat()
IsoFormat(now) == [py |-> "str", iso |-> now]

\* json.dumps of a dict keyed by port numbers: the keys become strings
StrKeys(f) ==
    [k \in {ToString(q) : q \in DOMAIN f} |->
        f[CHOOSE q \in DOMAIN f : ToString(q) = k]]
\* json.dumps of one module's payload
DumpsPayload(p) ==
    [x \in DOMAIN p |-> IF x \in {"services", "banners"} THEN StrKeys(p[x]) ELSE p[x]]
\* json.dumps(results): the text of the results column
DumpsResults(results) ==
    JsonText([i \in 1..Len(results) |-> <<results[i][1], DumpsPayload(results[i][2])>>])
\* json.dumps(analysis): the text of the analysis column
DumpsAnalysis(analysis) == JsonText(analysis)
\* json.loads(text)
json_loads(text) == text.json

RowsWithId(rows, scan_id) == {i \in 1..Len(rows) : rows[i].scan_id = scan_id}

\* create_scan that inserts the row in status pending
create_scan_Pending(rows, scan_id, target, scan_type, now, fault) ==
    IF fault = "execute" \/ RowsWithId(rows, scan_id) # {}
    THEN [rows |-> rows, raised |-> TRUE]
    ELSE [rows |-> Append(rows,
                     [scan_id |-> scan_id, target |-> target,
                      scan_type |-> scan_type, status |-> "pending",
                      created_at |-> IsoFormat(now), completed_at |-> None,
                      results |-> None, analysis |-> None]),
          raised |-> fault = "commit"]

\* create_scan whose statement is INSERT OR REPLACE: a scan_id the table
\* already holds takes over that row
create_scan_Replace(rows, scan_id, target, scan_type, now, fault) ==
    IF fault = "execute"
    THEN [rows |-> rows, raised |-> TRUE]
    ELSE [rows |-> Append(SelectSeq(rows, LAMBDA row : row.scan_id # scan_id),
                     [scan_id |-> scan_id, target |-> target,
                      scan_type |-> scan_type, status |-> "running",
                      created_at |-> IsoFormat(now), completed_at |-> None,
                      results |-> None, analysis |-> None]),
          raised |-> fault = "commit"]

\* create_scan: INSERT a row in status running, then commit. scan_id is the
\* uuid4 drawn; the PRIMARY KEY refuses a scan_id the table already holds.
create_scan(rows, scan_id, target, scan_type, now, fault) ==
    IF fault = "execute" \/ RowsWithId(rows, scan_id) # {}
    THEN [rows |-> rows, raised |-> TRUE]
    ELSE [rows |-> Append(rows,
                     [scan_id |-> scan_id, target |-> target,
                      scan_type |-> scan_type, status |-> "running",
                      created_at |-> IsoFormat(now), completed_at |-> None,
                      results |-> None, analysis |-> None]),
          raised |-> fault = "commit"]

\* save_results whose UPDATE has no WHERE clause
save_results_NoWhere(rows, scan_id, results, analysis, now, fault) ==
    IF fault = "execute"
    THEN [rows |-> rows, raised |-> TRUE]
    ELSE [rows |-> [i \in 1..Len(rows) |->
                      [rows[i] EXCEPT !.status = "completed",
                                      !.completed_at = IsoFormat(now),
                                      !.results = DumpsResults(results),
                                      !.analysis = DumpsAnalysis(analysis)]],
          raised |-> fault = "commit"]

\* save_results whose UPDATE sets the status and completed_at only
save_results_StatusOnly(rows, scan_id, results, analysis, now, fault) ==
    IF fault = "execute"
    THEN [rows |-> rows, raised |-> TRUE]
    ELSE [rows |-> [i \in 1..Len(rows) |->
                      IF rows[i].scan_id = scan_id
                      THEN [rows[i] EXCEPT !.status = "completed",
                                           !.completed_at = IsoFormat(now)]
                      ELSE rows[i]],
          raised |-> fault = "commit"]

\* save_results: UPDATE ... WHERE scan_id = ?, then commit
save_results(rows, scan_id, results, analysis, now, fault) ==
    IF fault = "execute"
    THEN [rows |-> rows, raised |-> TRUE]
    ELSE [rows |-> [i \in 1..Len(rows) |->
                      IF rows[i].scan_id = scan_id
                      THEN [rows[i] EXCEPT !.status = "completed",
                                           !.completed_at = IsoFormat(now),
                                           !.results = DumpsResults(results),
                                           !.analysis = DumpsAnalysis(analysis)]
                      ELSE rows[i]],
          raised |-> fault = "commit"]

\* get_scan: the first row with that scan_id as a dict, or None
get_scan(rows, scan_id) ==
    IF RowsWithId(rows, scan_id) = {} THEN None
    ELSE LET row == rows[CHOOSE i \in RowsWithId(rows, scan_id) :
                           \A j \in RowsWithId(rows, scan_id) : i <= j]
         IN  [py |-> "dict", scan_id |-> row.scan_id, target |-> row.target,
              scan_type |-> row.scan_type, status |-> row.status,
              created_at |-> row.created_at, completed_at |-> row.completed_at,
              results |-> IF row.results # None
                          THEN json_loads(row.results) ELSE <<>>,
              analysis |-> IF row.analysis # None
                           THEN json_loads(row.analysis) ELSE <<>>]

\* ORDER BY created_at DESC: the row with the greatest created_at first (the
\* earliest inserted among equals), then the others likewise.
RECURSIVE OrderByCreatedDesc(_)
OrderByCreatedDesc(rows) ==
    IF rows = <<>> THEN <<>>
    ELSE LET top == CHOOSE i \in 1..Len(rows) :
                        /\ \A j \in 1..Len(rows) :
                               rows[j].created_at.iso <= rows[i].created_at.iso
                        /\ \A j \in 1..(i - 1) :
                               rows[j].created_at.iso < rows[i].created_at.iso
         IN  <<rows[top]>> \o
             OrderByCreatedDesc(SubSeq(rows, 1, top - 1) \o
                                SubSeq(rows, top + 1, Len(rows)))

\* LIMIT ?: SQLite reads a negative limit as no limit
SqlLimit(rows, limit) ==
    IF limit < 0 THEN rows ELSE SubSeq(rows, 1, Min(limit, Len(rows)))

\* dict(row) over the six selected columns
ScanSummary(row) ==
    [scan_id |-> row.scan_id, target |-> row.target, scan_type |-> row.scan_type,
     status |-> row.status, created_at |-> row.created_at,
     completed_at |-> row.completed_at]

\* get_recent_scans: SELECT ... ORDER BY created_at DESC LIMIT ?
get_recent_scans(rows, limit) ==
    LET sel == SqlLimit(OrderByCreatedDesc(rows), limit)
    IN  [i \in 1..Len(sel) |-> ScanSummary(sel[i])]

\* get_statistics that counts every row as completed
get_statistics_CountAll(rows, found, now) ==
    [total_scans |-> Len(rows),
     completed_scans |-> Len(rows),
     total_findings |-> Len(found),
     last_updated |-> IsoFormat(now)]

\* get_statistics: the three COUNT(*) queries
get_statistics(rows, found, now) ==
    [total_scans |-> Len(rows),
     completed_scans |-> Cardinality({i \in 1..Len(rows) : rows[i].status = "completed"}),
     total_findings |-> Len(found),
     last_updated |-> IsoFormat(now)]

-----------------------------------------------------------------------------
(* modules/llm_analyzer.py: LLMAnalyzer                                    *)

\* What the provider does on each of the six calls.
TextAnswers == {"error", "text"}
ScoreAnswers == {"error", "42", "150", "-5", "high"}
JsonAnswers == {"error", "json", "fenced", "malformed"}

_generate_summary(ans) ==
    IF ans = "error" THEN "Summary generation failed" ELSE "summary"

\* int(score_text), or 50 under the bare except
_calculate_risk_score(ans) ==
    CASE ans = "42" -> 42
      [] ans = "150" -> 150
      [] ans = "-5" -> -5
      [] OTHER -> 50

\* json.loads of the answer, its code fence removed; the placeholder otherwise
JsonField(ans, placeholder) ==
    IF ans \in {"json", "fenced"} THEN "parsed" ELSE placeholder

_analyze_attack_surface(ans) == JsonField(ans, "Unable to analyze")
_identify_vulnerabilities(ans) == JsonField(ans, "Analysis Error")
_generate_recommendations(ans) == JsonField(ans, "Unable to generate recommendations")
_find_correlations(ans) == JsonField(ans, "Analysis incomplete")

\* The provider environments the scan requests run under.
AnalysisEnvs ==
    { [summary |-> "text", risk |-> "42", surface |-> "json", vulns |-> "json",
       recs |-> "fenced", corr |-> "json"],
      [summary |-> "error", risk |-> "error", surface |-> "error",
       vulns |-> "error", recs |-> "error", corr |-> "error"] }

\* Every way the provider can answer the six calls of one analyze.
AllAnalysisEnvs ==
    [summary : TextAnswers, risk : ScoreAnswers, surface : JsonAnswers,
     vulns : JsonAnswers, recs : JsonAnswers, corr : JsonAnswers]
\* The provider failed or answered malformed text on some call.
Degraded(env) ==
    \/ "error" \in {env.summary, env.risk, env.surface, env.vulns, env.recs, env.corr}
    \/ env.risk = "high"
    \/ "malformed" \in {env.surface, env.vulns, env.recs, env.corr}

\* The calls of one analyze on which the provider failed or answered text
\* the helper cannot parse.
FailedCalls(env) ==
    {f \in {"summary", "risk_score", "attack_surface", "vulnerabilities",
            "recommendations", "correlations"} :
        \/ f = "summary" /\ env.summary = "error"
        \/ f = "risk_score" /\ env.risk \in {"error", "high"}
        \/ f = "attack_surface" /\ env.surface \in {"error", "malformed"}
        \/ f = "vulnerabilities" /\ env.vulns \in {"error", "malformed"}
        \/ f = "recommendations" /\ env.recs \in {"error", "malformed"}
        \/ f = "correlations" /\ env.corr \in {"error", "malformed"}}

\* analyze whose helpers have no except of their own: the first failed call
\* raises into analyze's except and the later fields keep their initial values
analyze_FirstFailureAborts(target, results, env) ==
    LET fields == <<"summary", "risk_score", "attack_surface", "vulnerabilities",
                    "recommendations", "correlations">>
        bad == {i \in 1..Len(fields) : fields[i] \in FailedCalls(env)}
        stop == IF bad = {} THEN Len(fields) + 1
                ELSE CHOOSE i \in bad : \A j \in bad : i <= j
    IN  [target |-> target,
         summary |-> IF 1 < stop THEN _generate_summary(env.summary) ELSE "",
         risk_score |-> IF 2 < stop THEN _calculate_risk_score(env.risk) ELSE 0,
         attack_surface |-> IF 3 < stop THEN _analyze_attack_surface(env.surface) ELSE "",
         vulnerabilities |-> IF 4 < stop THEN _identify_vulnerabilities(env.vulns) ELSE "",
         recommendations |-> IF 5 < stop THEN _generate_recommendations(env.recs) ELSE "",
         correlations |-> IF 6 < stop THEN _find_correlations(env.corr) ELSE ""]

\* analyze(target, results): no helper raises, so the except never runs
analyze(target, results, env) ==
    [target |-> target,
     summary |-> _generate_summary(env.summary),
     risk_score |-> _calculate_risk_score(env.risk),
     attack_surface |-> _analyze_attack_surface(env.surface),
     vulnerabilities |-> _identify_vulnerabilities(env.vulns),
     recommendations |-> _generate_recommendations(env.recs),
     correlations |-> _find_correlations(env.corr)]

-----------------------------------------------------------------------------
(* The other modules, by what start_scan sees of them                      *)

\* DomainIntelligence.scan: every lookup is under its own try
DomainScan(t) == [raised |-> FALSE, value |-> [target |-> t, ip_addresses |-> <<>>]]

\* WebIntelligence.scan: urlparse(target) runs outside any try
WebScan(t) ==
    IF UrlParseRaises(t)
    THEN [raised |-> TRUE, value |-> "Invalid IPv6 URL"]
    ELSE [raised |-> FALSE, value |-> [target |-> t, technologies |-> <<>>]]

\* SocialIntelligence.scan
SocialScan(t) == [raised |-> FALSE, value |-> [target |-> t, social_profiles |-> <<>>]]

\* ThreatIntelligence.scan
ThreatScan(t) == [raised |-> FALSE, value |-> [target |-> t, reputation |-> "Clean"]]

-----------------------------------------------------------------------------
(* modules/person_intel.py: PersonIntelligence                             *)
(* A str is Str(chars); an f-string is the tuple of its pieces.            *)

\* str.split(): the words between runs of whitespace
RECURSIVE Split(_)
Split(s) ==
    LET t == LStrip(s)
    IN  IF t = <<>> THEN <<>>
        ELSE LET ends == {i \in 1..Len(t) : IsSpace(t[i])}
                 n == IF ends = {} THEN Len(t) + 1
                      ELSE CHOOSE i \in ends : \A j \in ends : i <= j
             IN  <<SubSeq(t, 1, n - 1)>> \o Split(SubSeq(t, n, Len(t)))

\* " ".join(words)
RECURSIVE Join(_)
Join(words) ==
    IF words = <<>> THEN <<>>
    ELSE IF Len(words) = 1 THEN words[1]
    ELSE words[1] \o <<" ">> \o Join(Tail(words))

\* str.lower(), over the letters the state codes below use
LowerChar(c) ==
    CASE c = "C" -> "c" [] c = "A" -> "a" [] c = "W" -> "w" [] c = "Y" -> "y"
      [] OTHER -> c
Lower(s) == [i \in 1..Len(s) |-> LowerChar(s[i])]

_parse_name(full_name) ==
    LET parts == Split(Strip(full_name.s))
        n == Len(parts)
    IN  [full_name |-> full_name,
         first_name |-> Str(IF n >= 2 THEN parts[1] ELSE <<>>),
         middle_name |-> Str(IF n >= 3 THEN parts[2] ELSE <<>>),
         last_name |-> Str(IF n = 1 THEN parts[1]
                           ELSE IF n = 2 THEN parts[2]
                           ELSE IF n >= 3 THEN parts[3] ELSE <<>>),
         suffix |-> Str(IF n >= 4 THEN Join(SubSeq(parts, 4, n)) ELSE <<>>)]

\* The ten states _search_state_records and _search_state_courts list.
ListedStates == {"CA", "NY", "TX", "FL", "IL", "PA", "OH", "GA", "NC", "MI"}
StateChars ==
    [CA |-> <<"C", "A">>, NY |-> <<"N", "Y">>, TX |-> <<"T", "X">>,
     FL |-> <<"F", "L">>, IL |-> <<"I", "L">>, PA |-> <<"P", "A">>,
     OH |-> <<"O", "H">>, GA |-> <<"G", "A">>, NC |-> <<"N", "C">>,
     MI |-> <<"M", "I">>]
\* A state code as the key of those dicts, "" when it is not a key
StateKey(s) ==
    IF \E k \in ListedStates : StateChars[k] = s
    THEN CHOOSE k \in ListedStates : StateChars[k] = s
    ELSE ""
state_systems ==
    [CA |-> "California Department of Justice",
     NY |-> "New York State Division of Criminal Justice Services",
     TX |-> "Texas Department of Public Safety",
     FL |-> "Florida Department of Law Enforcement",
     IL |-> "Illinois State Police",
     PA |-> "Pennsylvania State Police",
     OH |-> "Ohio Attorney General",
     GA |-> "Georgia Bureau of Investigation",
     NC |-> "North Carolina State Bureau of Investigation",
     MI |-> "Michigan State Police"]
state_court_urls ==
    [CA |-> "https://www.courts.ca.gov/",
     NY |-> "https://www.nycourts.gov/",
     TX |-> "https://www.txcourts.gov/",
     FL |-> "https://www.flcourts.org/",
     IL |-> "https://www.illinoiscourts.gov/",
     PA |-> "https://www.pacourts.us/",
     OH |-> "https://www.supremecourt.ohio.gov/",
     GA |-> "https://www.gasupreme.us/",
     NC |-> "https://www.nccourts.gov/",
     MI |-> "https://www.courts.michigan.gov/"]

\* A search that returned v, and one that raised e
Returned(v) == [raised |-> FALSE, value |-> v]
Raised(e) == [raised |-> TRUE, value |-> e]

_search_nsopw(now) ==
    << [source |-> <<"NSOPW">>, status |-> "No records found",
        search_date |-> IsoFormat(now)] >>
_search_bop(now) ==
    << [source |-> <<"Federal Bureau of Prisons">>, status |-> "Search completed",
        search_date |-> IsoFormat(now)] >>
_search_state_records(state, now) ==
    << [source |-> IF StateKey(state.s) \in ListedStates
                   THEN <<state_systems[StateKey(state.s)]>>
                   ELSE <<state.s, " State Criminal Records">>,
        state |-> state, status |-> "Search completed",
        search_date |-> IsoFormat(now)] >>

\* records = nsopw + bop, and the state's records `if state`
_search_criminal_records(state, now) ==
    Returned(_search_nsopw(now) \o _search_bop(now) \o
             (IF Truthy(state) THEN _search_state_records(state, now) ELSE <<>>))

_search_pacer(now) ==
    << [source |-> <<"PACER (Federal Courts)">>, status |-> "Available",
        url |-> <<"https://pacer.uscourts.gov">>, search_date |-> IsoFormat(now)] >>
\* state.lower() is evaluated for the default of .get(): it needs a str
_search_state_courts(state, now) ==
    IF state.py # "str" THEN Raised("AttributeError")
    ELSE Returned(
           << [source |-> <<state.s, " State Courts">>, state |-> state,
               status |-> "Available",
               url |-> IF StateKey(state.s) \in ListedStates
                       THEN <<state_court_urls[StateKey(state.s)]>>
                       ELSE <<"https://www.", Lower(state.s), "courts.gov">>,
               search_date |-> IsoFormat(now)] >>)
_search_county_courts(now) ==
    << [source |-> <<"County Courts">>, status |-> "Available",
        search_date |-> IsoFormat(now)] >>

\* _search_court_records that asks the state courts without testing `state`
_search_court_records_NoGuard(state, now) ==
    LET sc == _search_state_courts(state, now)
    IN  IF sc.raised THEN sc
        ELSE Returned(_search_pacer(now) \o sc.value \o _search_county_courts(now))

\* cases = pacer, the state courts `if state`, the county courts
_search_court_records(state, now) ==
    LET sc == IF Truthy(state) THEN _search_state_courts(state, now)
              ELSE Returned(<<>>)
    IN  IF sc.raised THEN sc
        ELSE Returned(_search_pacer(now) \o sc.value \o _search_county_courts(now))

\* person_name.replace(old, new), for a one-character old
Replace(s, old, new) ==
    LET F[i \in 0..Len(s)] ==
          IF i = 0 THEN <<>>
          ELSE F[i - 1] \o (IF s[i] = old THEN new ELSE <<s[i]>>)
    IN  F[Len(s)]

_search_professional_info(name) ==
    Returned([linkedin |->
                 [search_url |-> <<"https://www.linkedin.com/search/results/people/?keywords=",
                                   Replace(name.s, " ", <<"%20">>)>>],
              professional_licenses |-> <<"Medical License", "Legal License">>,
              certifications |-> <<>>, publications |-> <<>>])

_search_social_media(name) ==
    Returned([facebook |-> <<"https://www.facebook.com/search/people/?q=",
                             Replace(name.s, " ", <<"+">>)>>,
              twitter |-> <<"https://twitter.com/search?q=",
                            Replace(name.s, " ", <<"+">>)>>,
              instagram |-> <<"https://www.instagram.com/explore/tags/",
                              Replace(name.s, " ", <<>>)>>,
              tiktok |-> None, youtube |-> None])

_search_public_records(state) ==
    Returned([vital_records |-> IF Truthy(state) THEN [state |-> state] ELSE <<>>,
              marriage_records |-> <<>>, divorce_records |-> <<>>,
              death_records |-> <<>>, birth_records |-> <<>>])

_search_voter_records(state) ==
    Returned(IF Truthy(state)
             THEN [status |-> "Available in some states", state |-> state,
                   contact |-> <<state.s, " Secretary of State - Elections Division">>]
             ELSE [status |-> "Available in some states"])

_search_property_records(now) ==
    Returned(<< [source |-> <<"County Assessor / Property Appraiser">>,
                 status |-> "Public records available",
                 search_date |-> IsoFormat(now)] >>)

_search_business_records(state, now) ==
    Returned((IF Truthy(state)
              THEN << [source |-> <<state.s, " Secretary of State - Business Division">>,
                       status |-> "Public records available",
                       search_date |-> IsoFormat(now)] >>
              ELSE <<>>) \o
             << [source |-> <<"SEC EDGAR Database">>,
                 status |-> "Public records available",
                 search_date |-> IsoFormat(now)] >>)

\* The statements of scan() after the first, by the key each one assigns.
PersonSteps ==
    << "criminal_records", "court_cases", "professional_info", "social_media",
       "public_records", "voter_registration", "property_records",
       "business_registrations" >>
PersonSearch(key, name, state, now) ==
    CASE key = "criminal_records" -> _search_criminal_records(state, now)
      [] key = "court_cases" -> _search_court_records(state, now)
      [] key = "professional_info" -> _search_professional_info(name)
      [] key = "social_media" -> _search_social_media(name)
      [] key = "public_records" -> _search_public_records(state)
      [] key = "voter_registration" -> _search_voter_records(state)
      [] key = "property_records" -> _search_property_records(now)
      [] key = "business_registrations" -> _search_business_records(state, now)

\* results = {...}; results["identity"]["parsed_name"] = _parse_name(name)
PersonResults(name, state, dob, now) ==
    [target |-> name, state |-> state, dob |-> dob, timestamp |-> IsoFormat(now),
     identity |-> [parsed_name |-> _parse_name(name)],
     criminal_records |-> <<>>, court_cases |-> <<>>, professional_info |-> <<>>,
     social_media |-> <<>>, public_records |-> <<>>, addresses |-> <<>>,
     relatives |-> <<>>, employment |-> <<>>, education |-> <<>>]

\* PersonIntelligence.scan from its i-th search on, as one call
RECURSIVE PersonScanFrom(_, _, _, _, _)
PersonScanFrom(i, results, name, state, now) ==
    IF i > Len(PersonSteps) THEN Returned(results)
    ELSE LET out == PersonSearch(PersonSteps[i], name, state, now)
         IN  IF out.raised THEN out
             ELSE PersonScanFrom(i + 1, Put(results, PersonSteps[i], out.value),
                                 name, state, now)
PersonScan(name, state, dob, now) ==
    PersonScanFrom(1, PersonResults(name, state, dob, now), name, state, now)

\* The arguments of scan(): person_name a str, state and dob a str or None.
PersonNames ==
    { Str(<<>>), Str(<<"A">>), Str(<<" ", "A", " ", " ", "B">>),
      Str(<<"A", " ", "B", " ", "C">>),
      Str(<<"A", " ", "B", " ", "C", " ", "D", " ", "E">>) }
PersonStates == {None, Str(<<>>), Str(<<"C", "A">>), Str(<<"W", "Y">>)}
PersonDobs == {None, Str(<<"1990-01-01">>)}

-----------------------------------------------------------------------------
(* app.py: start_scan                                                      *)

\* The order of the if-chain over recon_request.modules.
KnownOrder == <<"domain", "web", "network", "social", "threat">>
KnownModules == SeqToSet(KnownOrder)

\* NextPc of an if/elif chain: only the first requested module runs
NextPc_Elif(i, modules) ==
    LET later == {j \in (i + 1)..Len(KnownOrder) : KnownOrder[j] \in SeqToSet(modules)}
    IN  IF later = {} \/ i > 0 THEN "analyze"
        ELSE KnownOrder[CHOOSE j \in later : \A k \in later : j <= k]

\* The next statement after the i-th `if`: the first later module that is in
\* the request, or the analysis.
NextPc(i, modules) ==
    LET later == {j \in (i + 1)..Len(KnownOrder) : KnownOrder[j] \in SeqToSet(modules)}
    IN  IF later = {} THEN "analyze"
        ELSE KnownOrder[CHOOSE j \in later : \A k \in later : j <= k]

IdxOf(name) == CHOOSE i \in 1..Len(KnownOrder) : KnownOrder[i] = name

NewRequest ==
    [pc |-> "idle", target |-> "", scan_type |-> "", modules |-> <<>>,
     scan_id |-> "", dns |-> "", results |-> <<>>, analysis |-> None,
     failed_calls |-> {}, response |-> None, http |-> 0, error |-> ""]

\* except Exception as e: raise HTTPException(status_code=500)
Raise500(q, cause) == [q EXCEPT !.pc = "failed", !.http = 500, !.error = cause]

\* AwaitModule that drops a raising module and goes on to the next `if`
AwaitModule_SkipRaised(q, name, out) ==
    IF out.raised
    THEN [q EXCEPT !.pc = NextPc(IdxOf(name), q.modules)]
    ELSE [q EXCEPT !.results = DictSet(@, name, out.value),
                   !.pc = NextPc(IdxOf(name), q.modules)]

\* results[name] = await <module>.scan(target), and on to the next `if`
AwaitModule(q, name, out) ==
    IF out.raised
    THEN Raise500(q, name)
    ELSE [q EXCEPT !.results = DictSet(@, name, out.value),
                   !.pc = NextPc(IdxOf(name), q.modules)]

\* return ReconResponse(...)
ReconResponse(q) ==
    [py |-> "ReconResponse", scan_id |-> q.scan_id, target |-> q.target,
     status |-> "completed", results |-> q.results, analysis |-> q.analysis]

\* The port environments the scan requests run under: every port refuses,
\* or one port accepts and sends a banner.
RefusedEnv ==
    [connect |-> "refused", read |-> [kind |-> "timeout", bytes |-> <<>>],
     close |-> "closed"]
BannerEnv ==
    [connect |-> "established", read |-> [kind |-> "data", bytes |-> <<"S", " ">>],
     close |-> "closed"]
ScanEnvs ==
    {[i \in PortIdx |-> IF i = k THEN BannerEnv ELSE RefusedEnv] : k \in 0..Len(Ports)}

\* db.initialize(), called by __main__ before the server starts
Initialize ==
    /\ conn = "none"
    /\ conn' = "open"
    /\ UNCHANGED <<clock, scans, req, net, findings, api, v2, psn>>

\* POST /api/scan up to the first await: create_scan, results = {}
StartScan(r) ==
    /\ req[r].pc = "idle"
    /\ \E t \in Targets, st \in ScanTypes, mods \in ModuleLists :
         LET q == [req[r] EXCEPT !.target = t, !.scan_type = st, !.modules = mods]
         IN  IF conn = "none"
             THEN /\ req' = [req EXCEPT ![r] = Raise500(q, "create_scan")]
                  /\ UNCHANGED <<clock, scans, findings, api, v2, psn>>
             ELSE \E id \in ScanIds, fault \in DbFaults :
                    LET c == create_scan(scans, id, t, st, Now, fault)
                    IN  /\ scans' = c.rows
                        /\ clock' = Now
                        /\ req' = [req EXCEPT ![r] =
                                     IF c.raised THEN Raise500(q, "create_scan")
                                     ELSE [q EXCEPT !.scan_id = id,
                                                    !.pc = NextPc(0, mods)]]
    /\ UNCHANGED <<conn, net, findings, api, v2, psn>>

ScanDomain(r) ==
    /\ req[r].pc = "domain"
    /\ req' = [req EXCEPT ![r] = AwaitModule(req[r], "domain", DomainScan(req[r].target))]
    /\ UNCHANGED <<conn, clock, scans, net, findings, api, v2, psn>>

ScanWeb(r) ==
    /\ req[r].pc = "web"
    /\ req' = [req EXCEPT ![r] = AwaitModule(req[r], "web", WebScan(req[r].target))]
    /\ UNCHANGED <<conn, clock, scans, net, findings, api, v2, psn>>

ScanNetwork(r) ==
    /\ req[r].pc = "network"
    /\ \E res \in Resolutions(req[r].target), envs \in ScanEnvs :
         req' = [req EXCEPT ![r] =
                   AwaitModule([req[r] EXCEPT !.dns = IF res.ok THEN "ok" ELSE "fail"],
                               "network",
                               [raised |-> FALSE,
                                value |-> NetworkScan(req[r].target, res, envs)])]
    /\ UNCHANGED <<conn, clock, scans, net, findings, api, v2, psn>>

ScanSocial(r) ==
    /\ req[r].pc = "social"
    /\ req' = [req EXCEPT ![r] = AwaitModule(req[r], "social", SocialScan(req[r].target))]
    /\ UNCHANGED <<conn, clock, scans, net, findings, api, v2, psn>>

ScanThreat(r) ==
    /\ req[r].pc = "threat"
    /\ req' = [req EXCEPT ![r] = AwaitModule(req[r], "threat", ThreatScan(req[r].target))]
    /\ UNCHANGED <<conn, clock, scans, net, findings, api, v2, psn>>

\* analysis = await llm_analyzer.analyze(target, results)
Analyze(r) ==
    /\ req[r].pc = "analyze"
    /\ \E env \in AnalysisEnvs :
         req' = [req EXCEPT ![r].analysis = analyze(req[r].target, req[r].results, env),
                            ![r].failed_calls = FailedCalls(env),
                            ![r].pc = "save"]
    /\ UNCHANGED <<conn, clock, scans, net, findings, api, v2, psn>>

\* AnalyzeAll where a provider failure escapes analyze into start_scan's except
AnalyzeAll_Escapes(r) ==
    /\ req[r].pc = "analyze"
    /\ \E env \in AllAnalysisEnvs :
         req' = [req EXCEPT ![r] =
                   IF Degraded(env) THEN Raise500(req[r], "analyze")
                   ELSE [req[r] EXCEPT
                           !.analysis = analyze(req[r].target, req[r].results, env),
                           !.failed_calls = FailedCalls(env),
                           !.pc = "save"]]
    /\ UNCHANGED <<conn, clock, scans, net, findings, api, v2, psn>>

\* analysis = await llm_analyzer.analyze(target, results), whatever the
\* provider does on each call
AnalyzeAll(r) ==
    /\ req[r].pc = "analyze"
    /\ \E env \in AllAnalysisEnvs :
         req' = [req EXCEPT ![r].analysis = analyze(req[r].target, req[r].results, env),
                            ![r].failed_calls = FailedCalls(env),
                            ![r].pc = "save"]
    /\ UNCHANGED <<conn, clock, scans, net, findings, api, v2, psn>>

\* db.save_results(scan_id, results, analysis) and the response
SaveResults(r) ==
    /\ req[r].pc = "save"
    /\ \E fault \in DbFaults :
         LET s == save_results(scans, req[r].scan_id, req[r].results,
                               req[r].analysis, Now, fault)
         IN  /\ scans' = s.rows
             /\ clock' = Now
             /\ req' = [req EXCEPT ![r] =
                          IF s.raised THEN Raise500(req[r], "save_results")
                          ELSE [req[r] EXCEPT !.pc = "done", !.http = 200,
                                              !.response = ReconResponse(req[r])]]
    /\ UNCHANGED <<conn, net, findings, api, v2, psn>>

-----------------------------------------------------------------------------
(* The store under its callers: start_scan's two writes and the read       *)
(* endpoints of app.py                                                     *)

StoreIdSeq == <<"id1", "id2", "id3", "id4">>
StoreIds == SeqToSet(StoreIdSeq)
\* uuid.uuid4(): a scan_id the table does not hold (the first one free stands
\* for any of them) or, by collision, one it holds
Uuid4(rows) ==
    LET free == {i \in 1..Len(StoreIdSeq) : RowsWithId(rows, StoreIdSeq[i]) = {}}
    IN  {rows[i].scan_id : i \in 1..Len(rows)} \cup
        {StoreIdSeq[i] : i \in {j \in free : \A k \in free : j <= k}}
StoreTargets == {"example.com"}
QueryIds == StoreIds \cup {"unknown"}
MaxLimit == 2
\* list_scans takes limit: int, unchecked
Limits == (0 - 1)..MaxLimit
\* What a scan hands to save_results.
StoreResults ==
    { <<>>, <<<<"web", [target |-> "example.com", technologies |-> <<>>]>>>> }
StoreAnalysis ==
    analyze("example.com", <<>>,
            [summary |-> "text", risk |-> "42", surface |-> "json", vulns |-> "json",
             recs |-> "fenced", corr |-> "json"])

\* returned: the scan_ids create_scan has returned; inserts: the INSERTs that
\* ran; saved: the scan_ids save_results was called with; writes: those whose
\* UPDATE ran; last: the last answer of a read endpoint.
NewApi ==
    [returned |-> {}, inserts |-> 0, saved |-> {}, writes |-> {},
     last |-> [op |-> "none"]]

\* scan_id = db.create_scan(target, scan_type), as start_scan calls it
CreateScan ==
    /\ conn = "open"
    /\ clock < MaxTime
    /\ \E id \in Uuid4(scans), t \in StoreTargets, st \in ScanTypes, fault \in DbFaults :
         LET c == create_scan(scans, id, t, st, Now, fault)
         IN  /\ scans' = c.rows
             /\ clock' = Now
             /\ api' = [api EXCEPT
                          !.returned = IF c.raised THEN @ ELSE @ \cup {id},
                          !.inserts = IF Len(c.rows) > Len(scans) THEN @ + 1 ELSE @]
    /\ UNCHANGED <<conn, req, net, findings, v2, psn>>

\* db.save_results(scan_id, results, analysis): start_scan calls it once, with
\* the scan_id its create_scan returned
SaveScan ==
    /\ conn = "open"
    /\ clock < MaxTime
    /\ \E id \in api.returned \ api.saved, results \in StoreResults, fault \in DbFaults :
         LET s == save_results(scans, id, results, StoreAnalysis, Now, fault)
         IN  /\ scans' = s.rows
             /\ clock' = Now
             /\ api' = [api EXCEPT
                          !.saved = @ \cup {id},
                          !.writes = IF fault = "execute" THEN @ ELSE @ \cup {id}]
    /\ UNCHANGED <<conn, req, net, findings, v2, psn>>

\* GET /api/scan/{scan_id}
GetScan ==
    /\ conn = "open"
    /\ \E id \in QueryIds :
         LET scan == get_scan(scans, id)
         IN  api' = [api EXCEPT !.last =
                       IF scan = None
                       THEN [op |-> "get_scan", scan_id |-> id, http |-> 404]
                       ELSE [op |-> "get_scan", scan_id |-> id, http |-> 200,
                             body |-> scan]]
    /\ UNCHANGED <<conn, clock, scans, req, net, findings, v2, psn>>

\* GET /api/scans?limit=
ListScans ==
    /\ conn = "open"
    /\ \E limit \in Limits :
         api' = [api EXCEPT !.last =
                   [op |-> "list_scans", limit |-> limit, http |-> 200,
                    body |-> get_recent_scans(scans, limit)]]
    /\ UNCHANGED <<conn, clock, scans, req, net, findings, v2, psn>>

\* GET /api/stats
GetStats ==
    /\ conn = "open"
    /\ api' = [api EXCEPT !.last =
                 [op |-> "get_stats", http |-> 200,
                  body |-> get_statistics(scans, findings, Now)]]
    /\ UNCHANGED <<conn, clock, scans, req, net, findings, v2, psn>>

-----------------------------------------------------------------------------
(* One NetworkIntelligence.scan call, probe by probe                       *)

NewNet ==
    [pc |-> "idle", target |-> "", dns |-> "", results |-> <<>>,
     probes |-> [i \in PortIdx |-> NewProbe(Ports[i])],
     order |-> <<>>, port_results |-> <<>>]

\* NetScanStart that awaits each _scan_port in turn: only the first is started
NetScanStart_Serial ==
    /\ net.pc = "idle"
    /\ \E t \in Targets : \E res \in Resolutions(t) :
         LET s == ScanResolve(t, res)
         IN  net' = [net EXCEPT
                       !.target = t,
                       !.dns = IF res.ok THEN "ok" ELSE "fail",
                       !.results = s.results,
                       !.pc = IF s.returned THEN "returned" ELSE "gathering",
                       !.probes = IF s.returned THEN @
                                  ELSE [@ EXCEPT ![1].pc = "connecting"]]
    /\ UNCHANGED <<conn, clock, scans, req, findings, api, v2, psn>>

\* scan(target) up to `await asyncio.gather(*tasks)`: every task is created
\* and runs to its first await
NetScanStart ==
    /\ net.pc = "idle"
    /\ \E t \in Targets : \E res \in Resolutions(t) :
         LET s == ScanResolve(t, res)
         IN  net' = [net EXCEPT
                       !.target = t,
                       !.dns = IF res.ok THEN "ok" ELSE "fail",
                       !.results = s.results,
                       !.pc = IF s.returned THEN "returned" ELSE "gathering",
                       !.probes = IF s.returned THEN @
                                  ELSE [i \in PortIdx |-> [@[i] EXCEPT !.pc = "connecting"]]]
    /\ UNCHANGED <<conn, clock, scans, req, findings, api, v2, psn>>

\* A probe's step: p is the probe after it
ProbeStep(i, p) ==
    net' = [net EXCEPT !.probes[i] = p,
                       !.order = IF p.pc = "returned" THEN Append(@, i) ELSE @]

ProbeConnect(i) ==
    /\ net.pc = "gathering"
    /\ net.probes[i].pc = "connecting"
    /\ \E out \in ConnectOutcomes : ProbeStep(i, ScanPortConnect(net.probes[i], out))
    /\ UNCHANGED <<conn, clock, scans, req, findings, api, v2, psn>>

ProbeRead(i) ==
    /\ net.pc = "gathering"
    /\ net.probes[i].pc = "reading"
    /\ \E out \in ReadOutcomes : ProbeStep(i, ScanPortRead(net.probes[i], out))
    /\ UNCHANGED <<conn, clock, scans, req, findings, api, v2, psn>>

ProbeClose(i) ==
    /\ net.pc = "gathering"
    /\ net.probes[i].pc = "closing"
    /\ \E out \in CloseOutcomesOf(net.probes[i]) :
         ProbeStep(i, ScanPortClose(net.probes[i], out))
    /\ UNCHANGED <<conn, clock, scans, req, findings, api, v2, psn>>

\* gather returns once every task has; then the loop over port_results
NetGather ==
    /\ net.pc = "gathering"
    /\ \A i \in PortIdx : net.probes[i].pc = "returned"
    /\ LET port_results == Gather(net.probes, net.order)
       IN  net' = [net EXCEPT !.port_results = port_results,
                              !.results = Classify(@, port_results),
                              !.pc = "returned"]
    /\ UNCHANGED <<conn, clock, scans, req, findings, api, v2, psn>>

-----------------------------------------------------------------------------
(* app_v2.py: the process and start_scan                                   *)

\* def analyze(self, target, results): the parameters after self
analyze_params == <<"target", "results">>
\* The methods class Database defines.
DatabaseMethods ==
    {"initialize", "create_scan", "save_results", "get_scan", "get_recent_scans",
     "get_statistics", "close"}

\* Python's binding of a call with npos positional arguments and the keyword
\* arguments kwargs to parameters without defaults: TRUE when it raises
\* TypeError
CallRaises(params, npos, kwargs) ==
    \/ npos > Len(params)
    \/ \E k \in kwargs : k \notin SeqToSet(params)
    \/ \E i \in 1..Min(npos, Len(params)) : params[i] \in kwargs
    \/ \E i \in (npos + 1)..Len(params) : params[i] \notin kwargs

V2Modules == KnownModules \cup {"person"}
TargetTypes == {"domain", "person"}

\* The module singletons' scan calls counted, for one request.
NewV2 ==
    [server |-> "down", conn |-> "none", pc |-> "idle", target |-> "",
     scan_type |-> "", target_type |-> "", modules |-> <<>>, state |-> None,
     dob |-> None, scan_id |-> "", results |-> <<>>, analysis |-> None,
     response |-> None, http |-> 0, error |-> "",
     calls |-> [m \in V2Modules |-> 0]]

\* python app_v2.py: __main__ calls db.init_db() before uvicorn.run
V2Main ==
    /\ v2.server = "down"
    /\ v2' = IF "init_db" \in DatabaseMethods
             THEN [v2 EXCEPT !.server = "up", !.conn = "open"]
             ELSE [v2 EXCEPT !.server = "crashed"]
    /\ UNCHANGED <<conn, clock, scans, req, net, findings, api, psn>>

\* The app object served by a program that imports app_v2: db.conn is None,
\* unless that program has itself called db.initialize()
V2Serve ==
    /\ v2.server = "down"
    /\ \E c \in {"none", "open"} : v2' = [v2 EXCEPT !.server = "up", !.conn = c]
    /\ UNCHANGED <<conn, clock, scans, req, net, findings, api, psn>>

\* POST /api/scan up to the first await: create_scan, results = {}, and the
\* test of target_type
V2StartScan ==
    /\ v2.server = "up"
    /\ v2.pc = "idle"
    /\ \E tt \in TargetTypes, st \in ScanTypes, mods \in ModuleLists,
          state \in PersonStates, dob \in PersonDobs :
         \E t \in (IF tt = "person" THEN PersonNames ELSE Targets) :
           LET q == [v2 EXCEPT !.target = t, !.scan_type = st, !.target_type = tt,
                               !.modules = mods, !.state = state, !.dob = dob]
           IN  IF v2.conn = "none"
               THEN /\ v2' = Raise500(q, "create_scan")
                    /\ UNCHANGED <<clock, scans>>
               ELSE \E id \in ScanIds :
                      LET c == create_scan(scans, id, t, st, Now, "none")
                      IN  /\ scans' = c.rows
                          /\ clock' = Now
                          /\ v2' = IF c.raised THEN Raise500(q, "create_scan")
                                   ELSE [q EXCEPT
                                           !.scan_id = id,
                                           !.pc = IF tt = "person" THEN "person"
                                                  ELSE NextPc(0, mods)]
    /\ UNCHANGED <<conn, req, net, findings, api, psn>>

\* results["person"] = await person_intel.scan(target, state=, dob=)
V2ScanPerson ==
    /\ v2.pc = "person"
    /\ LET out == PersonScan(v2.target, v2.state, v2.dob, Now)
           q == [v2 EXCEPT !.calls["person"] = @ + 1]
       IN  v2' = IF out.raised THEN Raise500(q, "person")
                 ELSE [q EXCEPT !.results = DictSet(@, "person", out.value),
                                !.pc = "analyze"]
    /\ UNCHANGED <<conn, clock, scans, req, net, findings, api, psn>>

\* What <name>_intel.scan(target) can hand back.
ModuleOutcomes(name, t) ==
    CASE name = "domain" -> {DomainScan(t)}
      [] name = "web" -> {WebScan(t)}
      [] name = "network" ->
            {Returned(NetworkScan(t, res, envs)) :
                res \in Resolutions(t), envs \in ScanEnvs}
      [] name = "social" -> {SocialScan(t)}
      [] name = "threat" -> {ThreatScan(t)}

\* results[name] = await <name>_intel.scan(target), in the else branch
V2ScanModule(name) ==
    /\ v2.pc = name
    /\ \E out \in ModuleOutcomes(name, v2.target) :
         v2' = AwaitModule([v2 EXCEPT !.calls[name] = @ + 1], name, out)
    /\ UNCHANGED <<conn, clock, scans, req, net, findings, api, psn>>

\* analysis = await llm_analyzer.analyze(results, target_type=...), then
\* db.update_scan(scan_id, "completed", results, analysis) and the response
V2Finish ==
    /\ v2.pc = "analyze"
    /\ v2' = IF CallRaises(analyze_params, 1, {"target_type"})
             THEN Raise500(v2, "analyze")
             ELSE IF "update_scan" \notin DatabaseMethods
             THEN Raise500(v2, "update_scan")
             ELSE [v2 EXCEPT !.pc = "done", !.http = 200]
    /\ UNCHANGED <<conn, clock, scans, req, net, findings, api, psn>>

-----------------------------------------------------------------------------
(* One PersonIntelligence instance, scan after scan                        *)

MaxPersonScans == 2

\* __init__, and no scan call yet
NewPerson ==
    [pc |-> "idle", name |-> None, state |-> None, dob |-> None,
     results |-> <<>>, ret |-> None, scans |-> 0,
     court_record_sources |->
         <<"https://www.judyrecords.com", "https://www.courtlistener.com",
           "https://publicaccess.courts.gov">>,
     criminal_record_sources |-> <<"https://www.nsopw.gov", "https://www.bop.gov">>]

\* scan(person_name, state, dob) up to its first search
PersonScanBegin ==
    /\ psn.pc \in {"idle", "returned", "raised"}
    /\ psn.scans < MaxPersonScans
    /\ \E name \in PersonNames, state \in PersonStates, dob \in PersonDobs :
         psn' = [psn EXCEPT !.pc = PersonSteps[1], !.name = name, !.state = state,
                            !.dob = dob, !.ret = None,
                            !.results = PersonResults(name, state, dob, Now)]
    /\ UNCHANGED <<conn, clock, scans, req, net, findings, api, v2>>

\* results[key] = await self._search_...(...), and `return results` after
\* the last one
PersonStep(i) ==
    /\ psn.pc = PersonSteps[i]
    /\ LET out == PersonSearch(PersonSteps[i], psn.name, psn.state, Now)
           results == Put(psn.results, PersonSteps[i], out.value)
       IN  psn' = IF out.raised
                  THEN [psn EXCEPT !.pc = "raised", !.scans = @ + 1]
                  ELSE IF i < Len(PersonSteps)
                  THEN [psn EXCEPT !.pc = PersonSteps[i + 1], !.results = results]
                  ELSE [psn EXCEPT !.pc = "returned", !.results = results,
                                   !.ret = results, !.scans = @ + 1]
    /\ UNCHANGED <<conn, clock, scans, req, net, findings, api, v2>>

-----------------------------------------------------------------------------
(* Specifications                                                          *)

Init ==
    /\ conn = "none"
    /\ clock = 0
    /\ scans = <<>>
    /\ req = [r \in Requests |-> NewRequest]
    /\ net = NewNet
    /\ findings = <<>>
    /\ api = NewApi
    /\ v2 = NewV2
    /\ psn = NewPerson

Next ==
    \/ Initialize
    \/ \E r \in Requests :
         \/ StartScan(r)
         \/ ScanDomain(r)
         \/ ScanWeb(r)
         \/ ScanNetwork(r)
         \/ ScanSocial(r)
         \/ ScanThreat(r)
         \/ Analyze(r)
         \/ SaveResults(r)

Spec == Init /\ [][Next]_vars

NextNet ==
    \/ NetScanStart
    \/ NetGather
    \/ \E i \in PortIdx :
         \/ ProbeConnect(i)
         \/ ProbeRead(i)
         \/ ProbeClose(i)

SpecNet == Init /\ [][NextNet]_vars

\* The same call under the event loop's scheduling: a task that can take its
\* next step takes it, because the connect and the read are each under a
\* wait_for deadline and the close of a transport with nothing left to write
\* is completed by the loop itself.
SpecNetLive ==
    /\ Init
    /\ [][NextNet]_vars
    /\ WF_vars(NetGather)
    /\ \A i \in PortIdx :
          /\ WF_vars(ProbeConnect(i))
          /\ WF_vars(ProbeRead(i))
          /\ WF_vars(ProbeClose(i))

\* One scan request, its analysis under every provider behaviour.
NextAnalysis ==
    \/ Initialize
    \/ StartScan("r1")
    \/ ScanDomain("r1")
    \/ ScanWeb("r1")
    \/ ScanNetwork("r1")
    \/ ScanSocial("r1")
    \/ ScanThreat("r1")
    \/ AnalyzeAll("r1")
    \/ SaveResults("r1")

SpecAnalysis == Init /\ [][NextAnalysis]_vars

\* The store under any sequence of its callers' writes and reads.
NextStore ==
    \/ Initialize
    \/ CreateScan
    \/ SaveScan
    \/ GetScan
    \/ ListScans
    \/ GetStats

SpecStore == Init /\ [][NextStore]_vars

NextPerson ==
    \/ PersonScanBegin
    \/ \E i \in 1..Len(PersonSteps) : PersonStep(i)

SpecPerson == Init /\ [][NextPerson]_vars

NextV2 ==
    \/ V2Main
    \/ V2Serve
    \/ V2StartScan
    \/ V2ScanPerson
    \/ \E name \in KnownModules : V2ScanModule(name)
    \/ V2Finish

SpecV2 == Init /\ [][NextV2]_vars

-----------------------------------------------------------------------------
(* Properties of start_scan and the store (Spec)                           *)

Ended(r) == req[r].pc \in {"done", "failed"}
RequestedKnown(r) == SeqToSet(req[r].modules) \cap KnownModules
PersistedScan(r) == get_scan(scans, req[r].scan_id)

\* C1: when a requested module's scan raises, the scan still ends completed:
\* the response and the record have status completed, the raising module's key
\* holds an error entry and every other requested module's payload is there.
C1_ModuleRaiseIsolated ==
    \A r \in Requests :
        (Ended(r) /\ req[r].error \in KnownModules) =>
            /\ req[r].pc = "done"
            /\ req[r].response.status = "completed"
            /\ PersistedScan(r).status = "completed"
            /\ DictKeys(req[r].response.results) = RequestedKnown(r)
            /\ "error" \in DOMAIN DictGet(req[r].response.results, req[r].error)

C3_StatusRunningThenCompleted ==
    [][ /\ Len(scans') >= Len(scans)
        /\ \A i \in 1..Len(scans') :
             IF i <= Len(scans)
             THEN /\ scans'[i].scan_id = scans[i].scan_id
                  /\ \/ scans'[i].status = scans[i].status
                     \/ scans[i].status = "running" /\ scans'[i].status = "completed"
             ELSE scans'[i].status = "running" ]_vars

C3_Witness ==
    \E i, j \in 1..Len(scans) :
        scans[i].status = "completed" /\ scans[j].status = "running"

\* C4: start_scan answers 500 only when create_scan or save_results failed,
\* never because a module's scan or the analysis raised.
C4_OnlyPersistenceFails ==
    \A r \in Requests :
        req[r].pc = "failed" => req[r].error \in {"create_scan", "save_results"}

\* C5: a request with modules ["network"] whose target does not resolve is not
\* failed by the resolution: results.network carries the error message, only a
\* store failure can answer 500, and otherwise the record and the response are
\* completed with that error entry.
C5_UnresolvedStillCompletes ==
    \A r \in Requests :
        (req[r].modules = <<"network">> /\ req[r].dns = "fail") =>
            /\ req[r].pc \in {"analyze", "save", "done", "failed"}
            /\ req[r].pc = "failed" => req[r].error = "save_results"
            /\ DictKeys(req[r].results) = {"network"}
            /\ "error" \in DOMAIN DictGet(req[r].results, "network")
            /\ DictGet(req[r].results, "network").error[1] = "Could not resolve hostname: "
            /\ req[r].pc = "done" =>
                   /\ req[r].http = 200
                   /\ req[r].response.status = "completed"
                   /\ PersistedScan(r).status = "completed"
                   /\ "error" \in DOMAIN DictGet(req[r].response.results, "network")
                   /\ "error" \in DOMAIN DictGet(PersistedScan(r).results, "network")

C5_Witness ==
    \E r \in Requests :
        /\ req[r].modules = <<"network">>
        /\ req[r].dns = "fail"
        /\ req[r].pc = "done"

\* C10: the scan_ids of the records are pairwise distinct, two requests never
\* hold the same scan_id, and a step changes a record only when it is the
\* save_results of the request that holds that record's scan_id.
C10_DistinctIdsAndFrame ==
    /\ [](/\ \A i, j \in 1..Len(scans) :
               i # j => scans[i].scan_id # scans[j].scan_id
          /\ \A r1, r2 \in Requests :
               (r1 # r2 /\ req[r1].scan_id # "") => req[r1].scan_id # req[r2].scan_id)
    /\ [][ \A i \in 1..Len(scans) :
             /\ i <= Len(scans')
             /\ scans'[i] # scans[i] =>
                  \E r \in Requests :
                      /\ req[r].pc = "save"
                      /\ req'[r].pc # "save"
                      /\ req[r].scan_id = scans[i].scan_id ]_vars

C10_Witness ==
    \E i, j \in 1..Len(scans) :
        /\ scans[i].target = scans[j].target
        /\ scans[i].scan_id # scans[j].scan_id
        /\ scans[i].status = "completed"
        /\ scans[j].status = "running"
        /\ scans[j].results = None

\* The requested names the if-chain knows, in the order the request lists them.
RequestedKnownSeq(r) == SelectSeq(req[r].modules, LAMBDA m : m \in KnownModules)
\* The modules whose scan start_scan has called so far: those that returned
\* and the one it is suspended in.
Started(r) == DictKeys(req[r].results) \cup ({req[r].pc} \cap KnownModules)

\* C11: the keys of the results map that start_scan returns and persists are
\* in the order in which the request lists the modules.
C11_KeyOrderIsRequestOrder ==
    \A r \in Requests :
        req[r].pc = "done" =>
            /\ DictKeySeq(req[r].response.results) = RequestedKnownSeq(r)
            /\ DictKeySeq(PersistedScan(r).results) = RequestedKnownSeq(r)

\* C20: start_scan starts every requested module's scan before it waits for
\* any of them: whenever it is suspended in a module, every requested module
\* has already been started.
C20_AllStartedBeforeAnyWait ==
    \A r \in Requests :
        req[r].pc \in KnownModules => Started(r) = RequestedKnown(r)

-----------------------------------------------------------------------------
(* Properties of the analysis step (SpecAnalysis)                          *)

AnalysisKeys ==
    {"target", "summary", "risk_score", "attack_surface", "vulnerabilities",
     "recommendations", "correlations"}

\* C12: whatever the provider does on each of its calls, analyze returns an
\* analysis with all its fields and start_scan goes on to the final write; a
\* request is never answered 500 because of the analysis, and a request that
\* is answered has status completed in its response and in its record, both
\* carrying that analysis.
C12_AnalysisFailureNeverFailsScan ==
    /\ [](\A r \in Requests :
            /\ req[r].pc \in {"save", "done"} =>
                   /\ req[r].analysis # None
                   /\ DOMAIN req[r].analysis = AnalysisKeys
            /\ req[r].pc = "failed" => req[r].error # "analyze"
            /\ (req[r].pc = "failed" /\ req[r].analysis # None) =>
                   req[r].error = "save_results"
            /\ req[r].pc = "done" =>
                   /\ req[r].http = 200
                   /\ req[r].response.status = "completed"
                   /\ req[r].response.analysis = req[r].analysis
                   /\ PersistedScan(r).status = "completed"
                   /\ PersistedScan(r).analysis = req[r].analysis)
    /\ [][ \A r \in Requests :
             req[r].pc = "analyze" => req'[r].pc \in {"analyze", "save"} ]_vars

C12_Witness ==
    \E r \in Requests :
        /\ req[r].pc = "done"
        /\ req[r].analysis.summary = "Summary generation failed"
        /\ req[r].analysis.attack_surface = "parsed"
        /\ req[r].analysis.vulnerabilities = "Analysis Error"
        /\ req[r].analysis.correlations = "Analysis incomplete"
        /\ PersistedScan(r).status = "completed"

\* C13: the risk_score of every analysis that analyze returns is an integer
\* from 0 to 100.
C13_RiskScoreInRange ==
    \A r \in Requests :
        req[r].analysis # None => req[r].analysis.risk_score \in 0..100

-----------------------------------------------------------------------------
(* Properties of the store under its callers (SpecStore)                   *)

\* C14: get_scan(id) returns a record exactly for the ids that an earlier
\* create_scan returned, and GET /api/scan/{id} answers 200 only for those
\* (404 for every other id).
C14_RecordIffCreated ==
    /\ \A id \in QueryIds :
          get_scan(scans, id) # None <=> id \in api.returned
    /\ api.last.op = "get_scan" =>
          /\ api.last.http \in {200, 404}
          /\ api.last.http = 200 => api.last.scan_id \in api.returned

\* C15: get_statistics reports as total_scans the number of records that
\* create_scan inserted, as completed_scans the number of records that
\* save_results wrote (never above total_scans), and total_findings 0; what
\* GET /api/stats answered never exceeds these counts.
C15_StatisticsCountRecords ==
    LET s == get_statistics(scans, findings, Now)
    IN  /\ s.total_scans = api.inserts
        /\ s.completed_scans = Cardinality(api.writes)
        /\ s.completed_scans <= s.total_scans
        /\ s.total_findings = 0
        /\ api.last.op = "get_stats" =>
              /\ api.last.body.total_findings = 0
              /\ api.last.body.completed_scans <= api.last.body.total_scans
              /\ api.last.body.total_scans <= api.inserts
              /\ api.last.body.completed_scans <= Cardinality(api.writes)

C15_Witness ==
    /\ api.last.op = "get_stats"
    /\ api.last.body.total_scans = 3
    /\ api.last.body.completed_scans = 1
    /\ Cardinality(api.returned) = 2

\* C16: for every limit that GET /api/scans accepts, get_recent_scans(limit)
\* returns at most limit summaries, newest first by created_at, and no record
\* it leaves out is newer than one it returns.
C16_AtMostLimitNewestFirst ==
    /\ \A limit \in Limits :
          LET out == get_recent_scans(scans, limit)
          IN  /\ out # <<>> => Len(out) <= limit
              /\ \A i, j \in 1..Len(out) :
                    i < j => out[i].created_at.iso >= out[j].created_at.iso
              /\ \A k \in 1..Len(scans) :
                    (\A i \in 1..Len(out) : out[i].scan_id # scans[k].scan_id) =>
                        \A i \in 1..Len(out) :
                            out[i].created_at.iso >= scans[k].created_at.iso
    /\ api.last.op = "list_scans" =>
          (api.last.body # <<>> => Len(api.last.body) <= api.last.limit)

-----------------------------------------------------------------------------
(* Properties of app_v2's start_scan (SpecV2)                              *)

V2Ended == v2.pc \in {"done", "failed"}

\* C17: a request with target_type person calls the person module's scan
\* exactly once and no other module's; a request with another target_type
\* calls exactly the requested ones of domain, web, network, social, threat,
\* once each, and never the person module's.
C17_DispatchByTargetType ==
    V2Ended =>
        IF v2.target_type = "person"
        THEN v2.calls = [m \in V2Modules |-> IF m = "person" THEN 1 ELSE 0]
        ELSE v2.calls = [m \in V2Modules |->
                           IF m \in KnownModules \cap SeqToSet(v2.modules)
                           THEN 1 ELSE 0]

\* C18: a request fails only when one of its modules raised: when they all
\* return, the analysis is obtained, the record is written with status
\* completed and the response has status completed.
C18_V2ReachesFinalWrite ==
    /\ v2.pc = "failed" => v2.error \in V2Modules
    /\ v2.pc = "done" =>
          /\ v2.http = 200
          /\ v2.analysis # None
          /\ get_scan(scans, v2.scan_id).status = "completed"

-----------------------------------------------------------------------------
(* Properties of PersonIntelligence (SpecPerson)                           *)

PersonKeys ==
    {"target", "state", "dob", "timestamp", "identity", "criminal_records",
     "court_cases", "professional_info", "social_media", "public_records",
     "voter_registration", "property_records", "business_registrations"}

\* C19: for every name, state (or None) and date of birth (or None), scan
\* never raises and returns a result that has the thirteen keys, with target
\* and state equal to the arguments; this holds for every scan of an
\* instance that is used again, and the instance's attributes never change.
C19_PersonScanReturnsAllKeys ==
    /\ psn.pc # "raised"
    /\ psn.pc = "returned" =>
          /\ PersonKeys \subseteq DOMAIN psn.ret
          /\ psn.ret.target = psn.name
          /\ psn.ret.state = psn.state
    /\ psn.court_record_sources = NewPerson.court_record_sources
    /\ psn.criminal_record_sources = NewPerson.criminal_record_sources

C19_Witness ==
    /\ psn.pc = "returned"
    /\ psn.scans = 2
    /\ psn.state = None
    /\ psn.dob = None
    /\ Len(psn.ret.court_cases) = 2
    /\ psn.ret.identity.parsed_name.suffix = Str(<<"D", " ", "E">>)

-----------------------------------------------------------------------------
(* Properties of NetworkIntelligence (SpecNet)                             *)

OpenSet == SeqToSet(net.results.open_ports)
ClosedSet == SeqToSet(net.results.closed_ports)
\* s lists, in the order of Ports, the ports of Ports that are in S
InListOrder(s, S) == s = SelectSeq(Ports, LAMBDA p : p \in S)

\* C6: when the resolution fails, scan returns at once with an error entry:
\* no probe is ever started, the four collections are empty and no ip_address
\* is reported.
C6_NoProbeWhenUnresolved ==
    net.dns = "fail" =>
        /\ net.pc = "returned"
        /\ "error" \in DOMAIN net.results
        /\ "ip_address" \notin DOMAIN net.results
        /\ net.results.open_ports = <<>>
        /\ net.results.closed_ports = <<>>
        /\ DOMAIN net.results.services = {}
        /\ DOMAIN net.results.banners = {}
        /\ \A i \in PortIdx : net.probes[i].pc = "unstarted"
        /\ net.order = <<>>
        /\ net.port_results = <<>>

C6_Witness == net.dns = "fail" /\ net.pc = "returned"

\* C7: for a resolving hostname the collected probe results have one entry per
\* listed port, in list order, whatever order the probes finished in; so
\* open_ports and closed_ports are disjoint, together hold exactly the listed
\* ports, and each keeps the order of the list.
C7_OnePerPortInListOrder ==
    (net.dns = "ok" /\ net.pc = "returned") =>
        /\ Len(net.port_results) = Len(Ports)
        /\ \A i \in PortIdx : net.port_results[i][1] = Ports[i]
        /\ OpenSet \cap ClosedSet = {}
        /\ OpenSet \cup ClosedSet = SeqToSet(Ports)
        /\ InListOrder(net.results.open_ports, OpenSet)
        /\ InListOrder(net.results.closed_ports, ClosedSet)

C7_Witness ==
    /\ net.dns = "ok"
    /\ net.pc = "returned"
    /\ net.order[1] # 1
    /\ OpenSet # {}
    /\ ClosedSet # {}

\* C8: _scan_port never raises; a probe whose connection was not established
\* returns (port, False, None), and every result that reports the port closed
\* has banner None.
C8_ProbeNeverRaises ==
    \A i \in PortIdx :
        /\ net.probes[i].pc # "raised"
        /\ net.probes[i].pc = "returned" =>
               /\ net.probes[i].ret[1] = Ports[i]
               /\ ~net.probes[i].established =>
                      net.probes[i].ret = <<Ports[i], FALSE, None>>
               /\ ~net.probes[i].ret[2] => net.probes[i].ret[3] = None

C8_Witness ==
    \E i, j \in PortIdx :
        /\ net.probes[i].pc = "returned"
        /\ ~net.probes[i].established
        /\ net.probes[j].pc = "returned"
        /\ net.probes[j].established
        /\ ~net.probes[j].ret[2]

\* C9: a probe whose connection was established reports the port open,
\* whatever the banner read and the close do; a port is reported closed only
\* when the connection was not established.
C9_EstablishedIsOpen ==
    \A i \in PortIdx :
        net.probes[i].pc = "returned" =>
            net.probes[i].ret[2] = net.probes[i].established

\* C21: after a successful resolution the probes are launched together: no
\* probe is left unstarted while scan waits or while another probe is in
\* flight, a probe still waiting for its connection keeps no other probe from
\* going on, and scan builds its result only when every probe has returned.
C21_ProbesLaunchedTogether ==
    /\ [](/\ (\E i \in PortIdx : net.probes[i].pc # "unstarted") =>
                 /\ net.dns = "ok"
                 /\ \A i \in PortIdx : net.probes[i].pc # "unstarted"
          /\ net.pc = "gathering" =>
                 /\ \A i \in PortIdx : net.probes[i].pc # "unstarted"
                 /\ net.port_results = <<>>
                 /\ net.results.open_ports = <<>>
                 /\ net.results.closed_ports = <<>>
          /\ (net.pc = "returned" /\ net.dns = "ok") =>
                 /\ \A i \in PortIdx : net.probes[i].pc = "returned"
                 /\ Len(net.order) = Len(Ports)
                 /\ Len(net.port_results) = Len(Ports))
    /\ [][ \A i \in PortIdx :
             net'.probes[i].pc # net.probes[i].pc =>
                 \/ net.pc = "idle"
                 \/ \A j \in PortIdx \ {i} : net'.probes[j] = net.probes[j] ]_vars

C21_Witness ==
    \E i, j \in PortIdx :
        /\ net.pc = "gathering"
        /\ net.probes[i].pc = "connecting"
        /\ net.probes[j].pc = "returned"
        /\ net.probes[j].ret[2]

-----------------------------------------------------------------------------
(* Properties of the order of start_scan's steps (Spec)                    *)

\* The position of a statement of start_scan in the order of its body.
StepRank(pc) ==
    CASE pc = "idle" -> 0
      [] pc \in KnownModules -> IdxOf(pc)
      [] pc = "analyze" -> Len(KnownOrder) + 1
      [] pc = "save" -> Len(KnownOrder) + 2
      [] OTHER -> Len(KnownOrder) + 3

\* C22: within one scan the steps run in the order create record, modules,
\* analysis, final write, response; the analysis is called only when every
\* dispatched module has returned, with the results of all of them, and the
\* record and the response hold either no results or the results of all the
\* dispatched modules.
C22_StepsOrderedNoPartialResults ==
    /\ [](\A r \in Requests :
            /\ req[r].pc \in KnownModules \cup {"analyze", "save", "done"} =>
                   /\ req[r].scan_id # ""
                   /\ PersistedScan(r) # None
            /\ req[r].pc \in KnownModules => req[r].pc \in RequestedKnown(r)
            /\ req[r].pc \in {"analyze", "save", "done"} =>
                   DictKeys(req[r].results) = RequestedKnown(r)
            /\ req[r].analysis # None =>
                   /\ req[r].pc \in {"save", "done", "failed"}
                   /\ DictKeys(req[r].results) = RequestedKnown(r)
            /\ PersistedScan(r) # None =>
                   \/ /\ PersistedScan(r).status = "running"
                      /\ PersistedScan(r).results = <<>>
                      /\ PersistedScan(r).analysis = <<>>
                      /\ req[r].pc # "done"
                   \/ /\ PersistedScan(r).status = "completed"
                      /\ DictKeys(PersistedScan(r).results) = RequestedKnown(r)
                      /\ PersistedScan(r).analysis = req[r].analysis
                      /\ req[r].pc \in {"done", "failed"}
            /\ req[r].response # None =>
                   /\ req[r].pc = "done"
                   /\ req[r].response.results = req[r].results
                   /\ DictKeys(req[r].response.results) = RequestedKnown(r)
                   /\ req[r].response.analysis = req[r].analysis
                   /\ PersistedScan(r).status = "completed")
    /\ [][ \A r \in Requests :
             /\ req'[r].pc # req[r].pc => StepRank(req'[r].pc) > StepRank(req[r].pc)
             /\ req'[r].analysis # req[r].analysis => req[r].pc = "analyze"
             /\ req'[r].results # req[r].results => req[r].pc \in KnownModules
             /\ req'[r].response # req[r].response => req[r].pc = "save" ]_vars

C22_Witness ==
    \E r1, r2 \in Requests :
        /\ req[r1].pc = "done"
        /\ DictKeys(PersistedScan(r1).results) = KnownModules
        /\ DictKeys(req[r1].response.results) = KnownModules
        /\ req[r2].pc = "failed"
        /\ req[r2].error = "web"
        /\ DictKeys(req[r2].results) = {"domain"}
        /\ PersistedScan(r2).status = "running"
        /\ PersistedScan(r2).results = <<>>

\* C23: when start_scan answers with a failure after create_scan succeeded,
\* the record of that scan is in status running with no completed_at, no
\* results and no analysis, then and in every later state.
C23_FailedScanStaysRunning ==
    \A r \in Requests :
        (req[r].pc = "failed" /\ req[r].scan_id # "") =>
            /\ PersistedScan(r) # None
            /\ PersistedScan(r).status = "running"
            /\ PersistedScan(r).completed_at = None
            /\ PersistedScan(r).results = <<>>
            /\ PersistedScan(r).analysis = <<>>

-----------------------------------------------------------------------------
(* Properties of concurrent requests on the shared connection (Spec)       *)

\* C24: the store writes of concurrent requests never interleave: a step that
\* changes the table is one whole create_scan or save_results of one request,
\* no other request moves in it, and for every interleaving each scan's
\* record holds that scan's own target, status, results and analysis.
C24_WritesNeverInterleave ==
    /\ [](\A r \in Requests :
            /\ req[r].scan_id # "" =>
                   /\ Cardinality(RowsWithId(scans, req[r].scan_id)) = 1
                   /\ \A r2 \in Requests \ {r} : req[r2].scan_id # req[r].scan_id
                   /\ PersistedScan(r).target = req[r].target
                   /\ PersistedScan(r).scan_type = req[r].scan_type
                   /\ PersistedScan(r).status = "completed" =>
                          /\ req[r].pc \in {"done", "failed"}
                          /\ PersistedScan(r).results =
                                 json_loads(DumpsResults(req[r].results))
                          /\ PersistedScan(r).analysis = req[r].analysis
            /\ req[r].pc = "done" => PersistedScan(r).status = "completed")
    /\ [][ scans' # scans =>
             \E r \in Requests :
                 /\ req'[r].pc # req[r].pc
                 /\ \A r2 \in Requests \ {r} : req'[r2] = req[r2]
                 /\ \/ /\ req[r].pc = "idle"
                       /\ \E id \in ScanIds, fault \in DbFaults :
                            scans' = create_scan(scans, id, req'[r].target,
                                                 req'[r].scan_type, clock', fault).rows
                    \/ /\ req[r].pc = "save"
                       /\ \E fault \in DbFaults :
                            scans' = save_results(scans, req[r].scan_id, req[r].results,
                                                  req[r].analysis, clock', fault).rows ]_vars

C24_Witness ==
    \E r1, r2 \in Requests :
        /\ req[r1].pc = "done"
        /\ req[r2].pc = "done"
        /\ req[r1].results # req[r2].results
        /\ req[r1].analysis # req[r2].analysis
        /\ PersistedScan(r1).created_at.iso < PersistedScan(r2).created_at.iso
        /\ PersistedScan(r2).created_at.iso < PersistedScan(r1).completed_at.iso
        /\ PersistedScan(r1).completed_at.iso < PersistedScan(r2).completed_at.iso
        /\ PersistedScan(r1).results = json_loads(DumpsResults(req[r1].results))
        /\ PersistedScan(r2).results = json_loads(DumpsResults(req[r2].results))

\* What a module's scan returns for target t when it runs alone on a fresh
\* instance: every value it can return, over what the network answers.
ScanAlone(name, t) ==
    CASE name = "domain" -> {DomainScan(t).value}
      [] name = "web" -> {WebScan(t).value}
      [] name = "network" ->
            {NetworkScan(t, res, envs) : res \in Resolutions(t), envs \in ScanEnvs}
      [] name = "social" -> {SocialScan(t).value}
      [] name = "threat" -> {ThreatScan(t).value}

C26_NoBannerIsNone ==
    \A i \in PortIdx :
        ( /\ net.probes[i].pc = "returned"
          /\ net.probes[i].established
          /\ net.probes[i].banner_data \in {None, Bytes(<<>>)} ) =>
            net.probes[i].ret = <<Ports[i], TRUE, None>>

-----------------------------------------------------------------------------
(* Properties of the analysis fields (SpecAnalysis)                        *)

\* The value a field takes when its own call failed.
Placeholder(f) ==
    CASE f = "summary" -> "Summary generation failed"
      [] f = "risk_score" -> 50
      [] f = "attack_surface" -> "Unable to analyze"
      [] f = "vulnerabilities" -> "Analysis Error"
      [] f = "recommendations" -> "Unable to generate recommendations"
      [] f = "correlations" -> "Analysis incomplete"
\* The values a field takes from an answer its helper accepts.
Answered(f) ==
    CASE f = "summary" -> {"summary"}
      [] f = "risk_score" -> {42, 150, 0 - 5}
      [] OTHER -> {"parsed"}

\* C27: the six analysis fields degrade independently: a field holds its
\* placeholder exactly when its own provider call failed or answered
\* malformed text, every other field holds the value of its own call, also
\* the fields after a failed one, and analyze returns to start_scan, which
\* goes on to the final write.
C27_FieldsDegradeIndependently ==
    /\ [](\A r \in Requests :
            req[r].analysis # None =>
                /\ DOMAIN req[r].analysis = AnalysisKeys
                /\ \A f \in AnalysisKeys \ {"target"} :
                      IF f \in req[r].failed_calls
                      THEN req[r].analysis[f] = Placeholder(f)
                      ELSE req[r].analysis[f] \in Answered(f)
                /\ req[r].pc \in {"save", "done", "failed"}
                /\ req[r].pc = "failed" => req[r].error = "save_results")
    /\ [][ \A r \in Requests :
             req[r].pc = "analyze" =>
                 \/ req'[r] = req[r]
                 \/ req'[r].pc = "save" /\ req'[r].analysis # None ]_vars

C27_Witness ==
    \E r \in Requests :
        /\ req[r].pc = "done"
        /\ req[r].failed_calls = {"risk_score", "vulnerabilities"}
        /\ req[r].analysis.summary = "summary"
        /\ req[r].analysis.risk_score = 50
        /\ req[r].analysis.attack_surface = "parsed"
        /\ req[r].analysis.vulnerabilities = "Analysis Error"
        /\ req[r].analysis.recommendations = "parsed"
        /\ req[r].analysis.correlations = "parsed"
        /\ PersistedScan(r).analysis = req[r].analysis

-----------------------------------------------------------------------------
(* Termination of NetworkIntelligence.scan (SpecNetLive)                   *)

\* C28: every _scan_port call that was started eventually returns a result,
\* whatever the remote host does at the connect, the banner read and the
\* close, and so scan eventually returns for every resolving target.
C28_EveryProbeReturns ==
    /\ \A i \in PortIdx :
          (net.probes[i].pc # "unstarted") ~>
              (net.probes[i].pc = "returned" /\ Len(net.probes[i].ret) = 3)
    /\ (net.dns = "ok") ~> (net.pc = "returned" /\ Len(net.port_results) = Len(Ports))

C28_Witness ==
    \E i, j \in PortIdx :
        /\ net.pc = "returned"
        /\ net.dns = "ok"
        /\ net.probes[i].ret = <<Ports[i], FALSE, None>>
        /\ ~net.probes[i].established
        /\ net.probes[j].established
        /\ net.probes[j].banner_data = None
        /\ ~net.probes[j].lost
        /\ net.probes[j].ret = <<Ports[j], TRUE, None>>

-----------------------------------------------------------------------------
(* Properties of the result of NetworkIntelligence.scan (SpecNet)          *)

\* C29: in every result of scan the keys of services are exactly the open
\* ports, each with the label of the port table; every key of banners is an
\* open port and its banner is the non-empty one its probe captured; a closed
\* port has neither a label nor a banner.
C29_ServicesAndBannersOfOpenPorts ==
    net.pc # "idle" =>
        /\ DOMAIN net.results.services = OpenSet
        /\ \A p \in DOMAIN net.results.services :
              /\ net.results.services[p] = _identify_service(p)
              /\ net.results.services[p] # "Unknown"
        /\ DOMAIN net.results.banners \subseteq OpenSet
        /\ \A i \in PortIdx :
              Ports[i] \in DOMAIN net.results.banners =>
                  /\ net.results.banners[Ports[i]] = net.probes[i].ret[3]
                  /\ net.results.banners[Ports[i]].py = "str"
                  /\ net.results.banners[Ports[i]].s # <<>>
        /\ \A p \in ClosedSet :
              p \notin DOMAIN net.results.services \cup DOMAIN net.results.banners
        /\ (net.pc = "returned" /\ net.dns = "ok") =>
              \A i \in PortIdx :
                  /\ Ports[i] \in OpenSet <=> net.probes[i].ret[2]
                  /\ Ports[i] \in DOMAIN net.results.banners <=>
                         (net.probes[i].ret[2] /\ Truthy(net.probes[i].ret[3]))

C29_Witness ==
    \E i, j \in PortIdx :
        /\ net.pc = "returned"
        /\ OpenSet = {Ports[i], Ports[j]}
        /\ DOMAIN net.results.banners = {Ports[i]}
        /\ net.results.banners[Ports[i]] = Str(<<"S">>)
        /\ net.probes[j].ret = <<Ports[j], TRUE, Str(<<>>)>>
        /\ net.results.services[Ports[j]] = _identify_service(Ports[j])

-----------------------------------------------------------------------------
(* Properties of the shape of the records (SpecStore)                      *)

\* get_scan's dict d reports empty results and an empty analysis
ReportsNoPayload(d) == DOMAIN d.results = {} /\ DOMAIN d.analysis = {}

\* C30: every record of the table is either running with completed_at,
\* results and analysis unset, or completed with the three of them set; and
\* get_scan reports empty results and analysis exactly for the running ones.
C30_RecordShapes ==
    /\ \A i \in 1..Len(scans) :
          \/ /\ scans[i].status = "running"
             /\ scans[i].completed_at = None
             /\ scans[i].results = None
             /\ scans[i].analysis = None
          \/ /\ scans[i].status = "completed"
             /\ scans[i].completed_at # None
             /\ scans[i].results # None
             /\ scans[i].analysis # None
    /\ \A id \in QueryIds :
          get_scan(scans, id) # None =>
              (ReportsNoPayload(get_scan(scans, id)) <=>
                   get_scan(scans, id).status = "running")
    /\ (api.last.op = "get_scan" /\ api.last.http = 200) =>
          (ReportsNoPayload(api.last.body) <=> api.last.body.status = "running")

C30_Witness ==
    /\ api.last.op = "get_scan"
    /\ api.last.http = 200
    /\ api.last.body.status = "completed"
    /\ DOMAIN api.last.body.results = {}
    /\ DOMAIN api.last.body.analysis # {}
    /\ \E i, j \in 1..Len(scans) :
          /\ scans[i].status = "running"
          /\ scans[j].status = "completed"
          /\ scans[j].scan_id \notin api.returned \/ scans[i].scan_id \notin api.returned

====
